---- MODULE Spec2Model ----
(***************************************************************************)
(* Invoicing and payment reconciliation of the property-management back   *)
(* office: the invoices / invoice_items / payments tables with their      *)
(* row-level-security policies and triggers (SQL migrations), and the     *)
(* client handlers that write to them (CreateInvoiceForm, InvoiceList,    *)
(* ViewInvoiceModal).                                                      *)
(*                                                                         *)
(* The money columns are numeric without a scale and the client computes  *)
(* in JavaScript numbers. Money is counted here in steps of 1/10000 of a  *)
(* currency unit, fine enough for subtotal * percentage / 100 to be exact *)
(* for whole item amounts and whole percentages; one step also stands for *)
(* the last place of a double where a JavaScript sum is inexact.          *)
(***************************************************************************)
EXTENDS Integers, Sequences, FiniteSets, TLC

\* ------------------------------------------------------------------ bounds
NOwners == 2
MaxInvoices == 2
MaxItems == 2
MaxPayments == 2
NSources == 2
MaxDay == 1
MaxCalls == 3
NSessions == 1
MaxTxns == 2

Owners == 1..NOwners
InvoiceIds == 1..MaxInvoices
ItemIds == 1..MaxItems
PaymentIds == 1..MaxPayments
SourceIds == 1..NSources
Sessions == 1..NSessions
TxnIds == 1..MaxTxns

\* the SQL NULL of a nullable uuid column (payments.invoice_id,
\* invoice_items.reference_id); also "no user" and "no invoice" in the client
NULL == 0

\* values the environment supplies
Money(n) == n * 10000
IsWhole(x) == x % 10000 = 0

RentAmounts == {Money(7)}
\* a rent of 7.55
CentRents == {75500}
OtherAmounts == {Money(15)}
PayAmounts == {Money(7)}
TaxPercentages == {16}
\* invoice_number_seq starts at 1 (last value 0); 9999 is the same sequence
\* after 9999 earlier calls, every invoice of which has been deleted since
SeqStarts == {0, 9999}

VARIABLES
  invoices,            \* table invoices: id -> row
  invoice_items,       \* table invoice_items: id -> row
  payments,            \* table payments: id -> row
  sources,             \* tables utilities / deposits: id -> row
  invoice_number_seq,  \* last value of the sequence invoice_number_seq
  today,               \* the day of now()
  form,                \* CreateInvoiceForm sessions
  modal,               \* the open ViewInvoiceModal, if any
  allocated,           \* how many invoice ids gen_random_uuid() has given out
  numberLog,           \* every string generate_invoice_number has returned
  payform,             \* the MakePaymentForm, open or closed
  txn                  \* statements in flight in concurrent transactions

vars == <<invoices, invoice_items, payments, sources, invoice_number_seq,
          today, form, modal, allocated, numberLog, payform, txn>>

\* ------------------------------------------------------------- helpers
RECURSIVE SumOver(_, _)
SumOver(f, S) ==
  IF S = {} THEN 0
  ELSE LET x == CHOOSE y \in S : TRUE IN f[x].amount + SumOver(f, S \ {x})

RECURSIVE SeqSum(_)
SeqSum(s) == IF s = <<>> THEN 0 ELSE Head(s).amount + SeqSum(Tail(s))

RECURSIVE SetToSeq(_)
\* the elements of a set of ids in increasing order
SetToSeq(S) ==
  IF S = {} THEN <<>>
  ELSE LET m == CHOOSE x \in S : \A y \in S : x <= y
       IN <<m>> \o SetToSeq(S \ {m})

Drop(f, S) == [k \in DOMAIN f \ S |-> f[k]]
Put(f, k, v) == [j \in DOMAIN f \cup {k} |-> IF j = k THEN v ELSE f[j]]

\* ------------------------------------------------ invoice numbering (SQL)
RECURSIVE Digits(_)
\* next_val::text, as a sequence of decimal digits
Digits(n) == IF n < 10 THEN <<n>> ELSE Append(Digits(n \div 10), n % 10)

RECURSIVE lpad(_, _, _)
\* PostgreSQL lpad: fills on the left up to len, and truncates on the right a
\* string that is already longer than len
lpad(s, len, fill) ==
  IF Len(s) >= len THEN SubSeq(s, 1, len) ELSE lpad(<<fill>> \o s, len, fill)

\* 'INV-' || to_char(now(), 'YYYYMMDD') || '-' || lpad(next_val::text, 4, '0')
generate_invoice_number(next_val, day) ==
  [prefix |-> "INV", date |-> day, ordinal |-> lpad(Digits(next_val), 4, 0)]

\* ------------------------------------------------- row-level security (SQL)
\* policies on invoices: USING / WITH CHECK (owner_id = auth.uid())
InvoicePolicy(uid, invs, i) == i \in DOMAIN invs /\ invs[i].owner_id = uid

\* policies on invoice_items: EXISTS (SELECT 1 FROM invoices WHERE
\* invoices.id = invoice_items.invoice_id AND invoices.owner_id = auth.uid())
ItemPolicy(uid, invs, its, k) ==
  k \in DOMAIN its /\ InvoicePolicy(uid, invs, its[k].invoice_id)

\* policies on utilities and deposits: USING (owner_id = auth.uid())
SourcePolicy(uid, r) == sources[r].owner_id = uid

\* ------------------------------------------------------- triggers (SQL)
ActiveItems(its, i) ==
  {k \in DOMAIN its : its[k].invoice_id = i /\ its[k].status = "active"}

\* update_invoice_totals with the status filter left out: the subtotal sums
\* every item of the invoice, void ones included
update_invoice_totals_all_items(uid, invs, its, i) ==
  IF InvoicePolicy(uid, invs, i)
  THEN LET sub == SumOver(its, {k \in DOMAIN its : its[k].invoice_id = i})
       IN [invs EXCEPT ![i].subtotal = sub,
                       ![i].total_amount = sub + invs[i].tax_amount]
  ELSE invs

\* update_invoice_totals adding the active sum onto the stored subtotal
\* instead of replacing it
update_invoice_totals_accumulate(uid, invs, its, i) ==
  IF InvoicePolicy(uid, invs, i)
  THEN LET sub == invs[i].subtotal + SumOver(its, ActiveItems(its, i))
       IN [invs EXCEPT ![i].subtotal = sub,
                       ![i].total_amount = sub + invs[i].tax_amount]
  ELSE invs

\* update_invoice_totals() for one row event whose invoice_id is i, the items
\* table being its. The function is SECURITY INVOKER: its two UPDATEs of
\* invoices pass the caller's UPDATE policy.
update_invoice_totals(uid, invs, its, i) ==
  IF InvoicePolicy(uid, invs, i)
  THEN LET sub == SumOver(its, ActiveItems(its, i))
       IN [invs EXCEPT ![i].subtotal = sub,
                       ![i].total_amount = sub + invs[i].tax_amount]
  ELSE invs

RECURSIVE TotalsForEach(_, _, _, _)
\* the row trigger once per affected row: one recomputation per invoice in S
TotalsForEach(uid, invs, its, S) ==
  IF S = {} THEN invs
  ELSE LET i == CHOOSE j \in S : TRUE
       IN TotalsForEach(uid, update_invoice_totals(uid, invs, its, i), its, S \ {i})

ConfirmedPayments(pays, i) ==
  {p \in DOMAIN pays : pays[p].invoice_id = i /\ pays[p].status = "confirmed"}

TotalPaid(pays, i) == SumOver(pays, ConfirmedPayments(pays, i))

\* update_invoice_status with > in place of >=: paid only when the payments
\* exceed the total (what C3 must tell from the function below)
update_invoice_status_strict(invs, pays, new) ==
  IF new.invoice_id # NULL /\ new.invoice_id \in DOMAIN invs
  THEN LET i == new.invoice_id
           invoice_total == invs[i].total_amount
           total_paid == TotalPaid(pays, i)
       IN IF total_paid > invoice_total
          THEN [invs EXCEPT ![i].status = "paid"]
          ELSE IF total_paid > 0
               THEN [invs EXCEPT ![i].status = "partially_paid"]
               ELSE invs
  ELSE invs

\* update_invoice_status() AFTER INSERT of the payment row new, the payments
\* table being pays. SECURITY DEFINER: its UPDATE of invoices passes no policy.
update_invoice_status(invs, pays, new) ==
  IF new.invoice_id # NULL /\ new.invoice_id \in DOMAIN invs
  THEN LET i == new.invoice_id
           invoice_total == invs[i].total_amount
           total_paid == TotalPaid(pays, i)
       IN IF total_paid >= invoice_total
          THEN [invs EXCEPT ![i].status = "paid"]
          ELSE IF total_paid > 0
               THEN [invs EXCEPT ![i].status = "partially_paid"]
               ELSE invs
  ELSE invs

\* --------------------------------------------------------------- Init
SourceKind(r) == IF r % 2 = 1 THEN "utility" ELSE "deposit"
SourceOwner(r) == (((r - 1) \div 2) % NOwners) + 1
SourceAmount(r) == IF SourceKind(r) = "utility" THEN Money(5) ELSE Money(15)

ClosedForm ==
  [pc |-> "closed", user |-> NULL, unit |-> NULL, tenant |-> NULL,
   items |-> <<>>, tax |-> 0, invoice |-> NULL]

NoModal == [user |-> NULL, invoice |-> NULL, status |-> "none"]

\* MakePaymentForm before it is opened: invoices is the list fetchInvoices
\* stored (id -> total_amount as read), selectedInvoices the ticked ids in
\* the order they were ticked
ClosedPayForm ==
  [pc |-> "closed", user |-> NULL, invoices |-> <<>>, selectedInvoices |-> <<>>]

\* no statement in flight
NoTxn == [kind |-> "none"]

\* the utility and deposit records the core is handed: saved, not yet invoiced
InitialSources ==
  [r \in SourceIds |->
     [owner_id |-> SourceOwner(r), kind |-> SourceKind(r),
      amount |-> SourceAmount(r), status |-> "saved"]]

Init ==
  /\ invoices = <<>>
  /\ invoice_items = <<>>
  /\ payments = <<>>
  /\ sources = InitialSources
  /\ invoice_number_seq = 0
  /\ today = 0
  /\ form = [s \in Sessions |-> ClosedForm]
  /\ modal = NoModal
  /\ allocated = 0
  /\ numberLog = <<>>
  /\ payform = ClosedPayForm
  /\ txn = [t \in TxnIds |-> NoTxn]

\* ------------------------------------------- direct item mutations (SQL)
\* the n smallest ids no item row bears (no row, form or modal refers to an
\* item by its id, so the id of a deleted item may serve again), or {} when
\* fewer than n are left
FreeItemIds(n) ==
  LET free == ItemIds \ DOMAIN invoice_items
  IN IF Cardinality(free) < n THEN {}
     ELSE {k \in free : Cardinality({j \in free : j < k}) < n}

\* INSERT INTO invoice_items by user uid: the INSERT policy's WITH CHECK,
\* then the row trigger update_invoice_totals
InsertItem(uid, i, amt) ==
  /\ FreeItemIds(1) # {}
  /\ InvoicePolicy(uid, invoices, i)
  /\ LET k == CHOOSE x \in FreeItemIds(1) : TRUE
         its == Put(invoice_items, k,
                    [invoice_id |-> i, type |-> "other", amount |-> amt,
                     reference_id |-> NULL, status |-> "active"])
     IN /\ invoice_items' = its
        /\ invoices' = update_invoice_totals(uid, invoices, its, i)
  /\ UNCHANGED <<payments, sources, invoice_number_seq, today, form, modal,
                 allocated, numberLog,
                 payform, txn>>

\* DELETE FROM invoice_items WHERE id = k by user uid: the DELETE policy
\* filters the row, then the row trigger
DeleteItem(uid, k) ==
  /\ k \in DOMAIN invoice_items
  /\ IF ItemPolicy(uid, invoices, invoice_items, k)
     THEN LET its == Drop(invoice_items, {k})
          IN /\ invoice_items' = its
             /\ invoices' = update_invoice_totals(uid, invoices, its,
                                                  invoice_items[k].invoice_id)
     ELSE UNCHANGED <<invoice_items, invoices>>
  /\ UNCHANGED <<payments, sources, invoice_number_seq, today, form, modal,
                 allocated, numberLog,
                 payform, txn>>

\* UPDATE invoice_items SET invoice_id = b WHERE id = k by user uid: the
\* UPDATE policy has no WITH CHECK, so its USING clause filters the row and
\* is checked again on the new row; b must exist (foreign key). The row
\* trigger recomputes the invoice of NEW.invoice_id only.
MoveItem(uid, k, b) ==
  /\ k \in DOMAIN invoice_items
  /\ IF /\ ItemPolicy(uid, invoices, invoice_items, k)
        /\ InvoicePolicy(uid, invoices, b)
     THEN LET its == [invoice_items EXCEPT ![k].invoice_id = b]
          IN /\ invoice_items' = its
             /\ invoices' = update_invoice_totals(uid, invoices, its, b)
     ELSE UNCHANGED <<invoice_items, invoices>>
  /\ UNCHANGED <<payments, sources, invoice_number_seq, today, form, modal,
                 allocated, numberLog, payform, txn>>

\* the items of its that UPDATE ... SET status = 'void' WHERE cond reaches as
\* user uid, voided
VoidRows(its, S) ==
  [k \in DOMAIN its |-> IF k \in S THEN [its[k] EXCEPT !.status = "void"] ELSE its[k]]

\* void_invoice_item that also gives the record its item refers to back to
\* the saved ones
void_invoice_item_release(uid, k) ==
  /\ k \in DOMAIN invoice_items
  /\ IF ItemPolicy(uid, invoices, invoice_items, k)
     THEN LET its == VoidRows(invoice_items, {k})
          IN /\ invoice_items' = its
             /\ invoices' = update_invoice_totals(uid, invoices, its,
                                                  invoice_items[k].invoice_id)
             /\ sources' = [r \in DOMAIN sources |->
                              IF r = invoice_items[k].reference_id
                              THEN [sources[r] EXCEPT !.status = "saved"]
                              ELSE sources[r]]
     ELSE UNCHANGED <<invoice_items, invoices, sources>>
  /\ UNCHANGED <<payments, invoice_number_seq, today, form, modal,
                 allocated, numberLog, payform, txn>>

\* void_invoice_item(item_id) called by user uid (SECURITY INVOKER)
void_invoice_item(uid, k) ==
  /\ k \in DOMAIN invoice_items
  /\ IF ItemPolicy(uid, invoices, invoice_items, k)
     THEN LET its == VoidRows(invoice_items, {k})
          IN /\ invoice_items' = its
             /\ invoices' = update_invoice_totals(uid, invoices, its,
                                                  invoice_items[k].invoice_id)
     ELSE UNCHANGED <<invoice_items, invoices>>
  /\ UNCHANGED <<payments, sources, invoice_number_seq, today, form, modal,
                 allocated, numberLog,
                 payform, txn>>

\* void_invoice(invoice_id): the first UPDATE reads WHERE invoice_id = $1, and
\* invoice_id names both the column of invoice_items and the function's own
\* parameter. What PL/pgSQL makes of that is the server's
\* plpgsql.variable_conflict: error (the statement raises and the call changes
\* nothing), use_column (the items of invoice $1) or use_variable ($1 = $1:
\* every item the caller's policy shows).
VariableConflict == {"error", "use_column", "use_variable"}

\* void_invoice whose second UPDATE leaves tax_amount out
void_invoice_keep_tax(uid, i, conflict) ==
  /\ i \in DOMAIN invoices
  /\ IF conflict = "error"
     THEN UNCHANGED <<invoice_items, invoices>>
     ELSE LET rows == {k \in DOMAIN invoice_items :
                         /\ ItemPolicy(uid, invoices, invoice_items, k)
                         /\ conflict = "use_column" => invoice_items[k].invoice_id = i}
              its == VoidRows(invoice_items, rows)
              recomputed == TotalsForEach(uid, invoices, its,
                                          {its[k].invoice_id : k \in rows})
          IN /\ invoice_items' = its
             /\ invoices' = IF InvoicePolicy(uid, recomputed, i)
                            THEN [recomputed EXCEPT ![i].status = "cancelled",
                                                    ![i].subtotal = 0,
                                                    ![i].total_amount = 0]
                            ELSE recomputed
  /\ UNCHANGED <<payments, sources, invoice_number_seq, today, form, modal,
                 allocated, numberLog,
                 payform, txn>>

void_invoice(uid, i, conflict) ==
  /\ i \in DOMAIN invoices
  /\ IF conflict = "error"
     THEN UNCHANGED <<invoice_items, invoices>>
     ELSE LET rows == {k \in DOMAIN invoice_items :
                         /\ ItemPolicy(uid, invoices, invoice_items, k)
                         /\ conflict = "use_column" => invoice_items[k].invoice_id = i}
              its == VoidRows(invoice_items, rows)
              recomputed == TotalsForEach(uid, invoices, its,
                                          {its[k].invoice_id : k \in rows})
          IN /\ invoice_items' = its
             /\ invoices' = IF InvoicePolicy(uid, recomputed, i)
                            THEN [recomputed EXCEPT ![i].status = "cancelled",
                                                    ![i].subtotal = 0,
                                                    ![i].tax_amount = 0,
                                                    ![i].total_amount = 0]
                            ELSE recomputed
  /\ UNCHANGED <<payments, sources, invoice_number_seq, today, form, modal,
                 allocated, numberLog,
                 payform, txn>>

\* ---------------------------------------------------- payments (SQL)
\* INSERT INTO payments by user uid of a row with owner_id = uid (the INSERT
\* policy's WITH CHECK), invoice_id inv (NULL, or an existing invoice: the
\* foreign key is checked without any policy) and amount amt > 0; then the
\* row trigger update_invoice_status
InsertPayment(uid, inv, amt) ==
  /\ Cardinality(DOMAIN payments) < MaxPayments
  /\ amt > 0
  /\ inv = NULL \/ inv \in DOMAIN invoices
  /\ LET p == Cardinality(DOMAIN payments) + 1
         new == [owner_id |-> uid, invoice_id |-> inv, amount |-> amt,
                 status |-> "confirmed"]
         pays == Put(payments, p, new)
     IN /\ payments' = pays
        /\ invoices' = update_invoice_status(invoices, pays, new)
  /\ UNCHANGED <<invoice_items, sources, invoice_number_seq, today, form, modal,
                 allocated, numberLog,
                 payform, txn>>

\* ------------------------------------------ InvoiceList.handleDelete
\* DELETE FROM invoices WHERE id = i by user uid; invoice_items cascade
\* (ON DELETE CASCADE), payments keep their row with invoice_id SET NULL
handleDelete(uid, i) ==
  /\ i \in DOMAIN invoices
  /\ IF InvoicePolicy(uid, invoices, i)
     THEN /\ invoices' = Drop(invoices, {i})
          /\ invoice_items' = Drop(invoice_items,
                                   {k \in DOMAIN invoice_items :
                                      invoice_items[k].invoice_id = i})
          /\ payments' = [p \in DOMAIN payments |->
                            IF payments[p].invoice_id = i
                            THEN [payments[p] EXCEPT !.invoice_id = NULL]
                            ELSE payments[p]]
     ELSE UNCHANGED <<invoices, invoice_items, payments>>
  /\ UNCHANGED <<sources, invoice_number_seq, today, form, modal, allocated, numberLog,
                 payform, txn>>

\* ------------------------------------------------- ViewInvoiceModal
\* the modal opens on an invoice of the list (the SELECT policy shows the
\* user's own) and fetchInvoiceDetails stores what it read
OpenModal(uid, i) ==
  /\ modal = NoModal
  /\ InvoicePolicy(uid, invoices, i)
  /\ modal' = [user |-> uid, invoice |-> i, status |-> invoices[i].status]
  /\ UNCHANGED <<invoices, invoice_items, payments, sources, invoice_number_seq,
                 today, form, allocated, numberLog,
                 payform, txn>>

CloseModal ==
  /\ modal # NoModal
  /\ modal' = NoModal
  /\ UNCHANGED <<invoices, invoice_items, payments, sources, invoice_number_seq,
                 today, form, allocated, numberLog,
                 payform, txn>>

\* handleSendInvoice: the button is rendered while the fetched details say
\* draft; UPDATE invoices SET status = 'sent' WHERE id = invoice.id, then
\* fetchInvoiceDetails again (which keeps the old details when it finds no row)
handleSendInvoice ==
  /\ modal # NoModal
  /\ modal.status = "draft"
  /\ LET uid == modal.user
         i == modal.invoice
         invs == IF InvoicePolicy(uid, invoices, i)
                 THEN [invoices EXCEPT ![i].status = "sent"]
                 ELSE invoices
     IN /\ invoices' = invs
        /\ modal' = IF InvoicePolicy(uid, invs, i)
                    THEN [modal EXCEPT !.status = invs[i].status]
                    ELSE modal
        /\ UNCHANGED <<invoice_items, payments, sources, invoice_number_seq, today,
                 form, allocated, numberLog,
                 payform, txn>>

\* ------------------------------------------------- CreateInvoiceForm
\* the form is opened by user uid: nothing is selected, there is no item
OpenForm(s, uid) ==
  /\ form[s].pc = "closed"
  /\ form' = [form EXCEPT ![s] = [ClosedForm EXCEPT !.pc = "editing", !.user = uid]]
  /\ UNCHANGED <<invoices, invoice_items, payments, sources, invoice_number_seq,
                 today, modal, allocated, numberLog,
                 payform, txn>>

\* what selecting a unit leaves in form f: fetchUnitDetails makes the rent
\* the only item, fetchTenant stores the unit's tenant when it finds one and
\* keeps what it had when the query errors (a unit without a tenant)
WithUnit(f, rent, found) ==
  [f EXCEPT !.unit = 1,
            !.tenant = IF found THEN 1 ELSE @,
            !.items = <<[type |-> "rent", amount |-> rent, reference_id |-> NULL]>>]

\* the form is opened by user uid, who selects a property and a unit that
\* has a tenant
SelectUnit(s, uid, rent) ==
  /\ form[s].pc = "closed"
  /\ form' = [form EXCEPT ![s] =
                WithUnit([ClosedForm EXCEPT !.pc = "editing", !.user = uid],
                         rent, TRUE)]
  /\ UNCHANGED <<invoices, invoice_items, payments, sources, invoice_number_seq,
                 today, modal, allocated, numberLog,
                 payform, txn>>

\* in the open form, a unit is selected that has a tenant or has none
SelectUnitLater(s, rent, found) ==
  /\ form[s].pc = "editing"
  /\ form[s].unit = NULL
  /\ form' = [form EXCEPT ![s] = WithUnit(@, rent, found)]
  /\ UNCHANGED <<invoices, invoice_items, payments, sources, invoice_number_seq,
                 today, modal, allocated, numberLog,
                 payform, txn>>

\* in the open form, a unit with a tenant is selected and the query of
\* fetchUnitDetails errors: it logs and returns, and the items stay as they are
SelectUnitNoDetails(s) ==
  /\ form[s].pc = "editing"
  /\ form[s].unit = NULL
  /\ form' = [form EXCEPT ![s].unit = 1, ![s].tenant = 1]
  /\ UNCHANGED <<invoices, invoice_items, payments, sources, invoice_number_seq,
                 today, modal, allocated, numberLog, payform, txn>>

SavedSources(uid, kind) ==
  {r \in SourceIds : /\ SourcePolicy(uid, r)
                     /\ sources[r].kind = kind
                     /\ sources[r].status = "saved"}

DraftsOf(S, kind) ==
  LET ids == SetToSeq(S)
  IN [n \in 1..Len(ids) |->
        [type |-> kind, amount |-> sources[ids[n]].amount, reference_id |-> ids[n]]]

\* fetchUtilities / fetchDeposits: the saved records the user may see replace
\* the items of that type; an empty answer changes nothing
FetchSources(s, kind) ==
  /\ form[s].pc = "editing"
  /\ form[s].unit # NULL
  /\ LET data == SavedSources(form[s].user, kind)
         others == SelectSeq(form[s].items, LAMBDA it : it.type # kind)
     IN /\ data # {}
        /\ form' = [form EXCEPT ![s].items = others \o DraftsOf(data, kind)]
  /\ UNCHANGED <<invoices, invoice_items, payments, sources, invoice_number_seq,
                 today, modal, allocated, numberLog,
                 payform, txn>>

fetchUtilities(s) == FetchSources(s, "utility")
fetchDeposits(s) == FetchSources(s, "deposit")

\* the Apply Tax checkbox with a tax of the catalog selected
SelectTax(s, pct) ==
  /\ form[s].pc = "editing"
  /\ form[s].tax = 0
  /\ form' = [form EXCEPT ![s].tax = pct]
  /\ UNCHANGED <<invoices, invoice_items, payments, sources, invoice_number_seq,
                 today, modal, allocated, numberLog,
                 payform, txn>>

\* a + b of two JavaScript numbers, as the decimal the result is sent as:
\* whole numbers add exactly; otherwise the nearest double to the sum may
\* print one last place off the decimal sum (7 + 1.12 = 8.120000000000001)
JsSum(a, b) ==
  IF IsWhole(a) /\ IsWhole(b) THEN {a + b} ELSE {a + b - 1, a + b, a + b + 1}

\* calculateTotals: what the form can compute for its items and the
\* percentage of the selected tax, 0 for none. Nothing is rounded: for the
\* amounts and whole percentages of the model subtotal * percentage / 100
\* has at most four decimals and is sent as that decimal.
calculateTotals(items, pct) ==
  LET subtotal == SeqSum(items)
      taxAmount == (subtotal * pct) \div 100
  IN IF pct = 0
     THEN {[subtotal |-> subtotal, taxAmount |-> 0, total |-> subtotal]}
     ELSE {[subtotal |-> subtotal, taxAmount |-> taxAmount, total |-> total] :
             total \in JsSum(subtotal, taxAmount)}

\* invoices without the UNIQUE constraint on invoice_number
UniqueViolation_off(invs, number) == FALSE

\* invoice_number text UNIQUE NOT NULL: the INSERT of a row with this number
\* aborts when a row of invs has it
UniqueViolation(invs, number) ==
  \E j \in DOMAIN invs : invs[j].invoice_number = number

\* the invoice numbers a caller may supply: ones the generator can return
SuppliedNumbers ==
  {generate_invoice_number(n, d) : n \in {1, 10000}, d \in 0..MaxDay}

\* INSERT INTO invoices by user uid of a row that brings its invoice_number:
\* set_invoice_number leaves it alone and no sequence value is drawn
InsertInvoice(uid, number, amt) ==
  /\ allocated < MaxInvoices
  /\ IF UniqueViolation(invoices, number)
     THEN UNCHANGED <<invoices, allocated>>
     ELSE /\ invoices' = Put(invoices, allocated + 1,
                             [owner_id |-> uid,
                              invoice_number |-> number,
                              subtotal |-> amt,
                              tax_amount |-> 0,
                              total_amount |-> amt,
                              status |-> "draft"])
          /\ allocated' = allocated + 1
  /\ UNCHANGED <<invoice_items, payments, sources, invoice_number_seq, today, form,
                 modal, numberLog,
                 payform, txn>>

\* handleSubmit without its validation
Rejected_never(f) == FALSE

\* handleSubmit's validation: without a property, a unit and a tenant, or
\* without an item, it alerts and returns
Rejected(f) == f.unit = NULL \/ f.tenant = NULL \/ Len(f.items) = 0

\* handleSubmit, first request: INSERT INTO invoices ... RETURNING. The row
\* carries no invoice_number, so the BEFORE INSERT trigger set_invoice_number
\* draws one; the sequence keeps its advance when the INSERT then aborts on
\* the UNIQUE constraint. ok = FALSE is a request that returns an error
\* without reaching the tables. On an error the handler alerts and the form
\* stays as it was.
SubmitInvoice(s, ok) ==
  /\ form[s].pc = "editing"
  /\ IF Rejected(form[s]) \/ ~ok
     THEN UNCHANGED <<form, invoices, invoice_number_seq, numberLog, allocated>>
     ELSE /\ Len(numberLog) < MaxCalls
          /\ allocated < MaxInvoices
          /\ \E t \in calculateTotals(form[s].items, form[s].tax) :
             LET next_val == invoice_number_seq + 1
                 number == generate_invoice_number(next_val, today)
                 i == allocated + 1
             IN /\ invoice_number_seq' = next_val
                /\ numberLog' = Append(numberLog, number)
                /\ IF UniqueViolation(invoices, number)
                   THEN UNCHANGED <<form, invoices, allocated>>
                   ELSE /\ invoices' = Put(invoices, i,
                               [owner_id |-> form[s].user,
                                invoice_number |-> number,
                                subtotal |-> t.subtotal,
                                tax_amount |-> t.taxAmount,
                                total_amount |-> t.total,
                                status |-> "draft"])
                        /\ allocated' = i
                        /\ form' = [form EXCEPT ![s].pc = "invoice_inserted",
                                                ![s].invoice = i]
  /\ UNCHANGED <<invoice_items, payments, sources, today, modal, payform, txn>>

ReferenceIds(items, kind) ==
  {items[n].reference_id : n \in {m \in DOMAIN items :
                                    items[m].type = kind /\ items[m].reference_id # NULL}}

\* where handleSubmit stands once a request has been answered without a
\* looked-at error: the update of the utilities is sent only when an item
\* refers to one, the update of the deposits likewise, and with nothing left
\* to send the handler calls onSuccess() and onClose()
AfterRequest(f, done) ==
  IF done = "items" /\ ReferenceIds(f.items, "utility") # {}
  THEN [f EXCEPT !.pc = "items_inserted"]
  ELSE IF done \in {"items", "utilities"} /\ ReferenceIds(f.items, "deposit") # {}
       THEN [f EXCEPT !.pc = "utilities_updated"]
       ELSE ClosedForm

\* the catch block: alert, the form stays open with what the user entered
AfterError(f) == [f EXCEPT !.pc = "editing", !.invoice = NULL]

\* handleSubmit, second request: one INSERT of all the items (one statement:
\* all rows or none), each row firing update_invoice_totals; it fails when
\* the invoice is gone (foreign key, INSERT policy) or the request errors
SubmitItems(s, ok) ==
  /\ form[s].pc = "invoice_inserted"
  /\ LET uid == form[s].user
         i == form[s].invoice
         n == Len(form[s].items)
         ids == SetToSeq(FreeItemIds(n))
         its == [k \in DOMAIN invoice_items \cup FreeItemIds(n) |->
                   IF k \in DOMAIN invoice_items THEN invoice_items[k]
                   ELSE LET d == form[s].items[CHOOSE m \in 1..n : ids[m] = k]
                        IN [invoice_id |-> i, type |-> d.type, amount |-> d.amount,
                            reference_id |-> d.reference_id, status |-> "active"]]
     IN IF ok /\ InvoicePolicy(uid, invoices, i)
        THEN /\ FreeItemIds(n) # {}
             /\ invoice_items' = its
             /\ invoices' = update_invoice_totals(uid, invoices, its, i)
             /\ form' = [form EXCEPT ![s] = AfterRequest(@, "items")]
        ELSE /\ form' = [form EXCEPT ![s] = AfterError(@)]
             /\ UNCHANGED <<invoice_items, invoices>>
  /\ UNCHANGED <<payments, sources, invoice_number_seq, today, modal, allocated,
                 numberLog,
                 payform, txn>>

\* UPDATE utilities / deposits SET status = 'invoiced' WHERE id IN ids, as
\* user uid
MarkInvoiced(uid, ids) ==
  [r \in SourceIds |-> IF r \in ids /\ SourcePolicy(uid, r)
                       THEN [sources[r] EXCEPT !.status = "invoiced"]
                       ELSE sources[r]]

\* handleSubmit, third request: the answer of the update is awaited and its
\* error is not looked at
SubmitUtilities(s, ok) ==
  /\ form[s].pc = "items_inserted"
  /\ sources' = IF ok
                THEN MarkInvoiced(form[s].user, ReferenceIds(form[s].items, "utility"))
                ELSE sources
  /\ form' = [form EXCEPT ![s] = AfterRequest(@, "utilities")]
  /\ UNCHANGED <<invoices, invoice_items, payments, invoice_number_seq, today,
                 modal, allocated, numberLog,
                 payform, txn>>

\* handleSubmit, fourth request, then onSuccess() and onClose()
SubmitDeposits(s, ok) ==
  /\ form[s].pc = "utilities_updated"
  /\ sources' = IF ok
                THEN MarkInvoiced(form[s].user, ReferenceIds(form[s].items, "deposit"))
                ELSE sources
  /\ form' = [form EXCEPT ![s] = AfterRequest(@, "deposits")]
  /\ UNCHANGED <<invoices, invoice_items, payments, invoice_number_seq, today,
                 modal, allocated, numberLog,
                 payform, txn>>

\* the step of handleSubmit of session s that ends in onSuccess()
onSuccess(s) ==
  /\ form[s].pc \in {"invoice_inserted", "items_inserted", "utilities_updated"}
  /\ form'[s].pc = "closed"

\* the Cancel button
CloseForm(s) ==
  /\ form[s].pc = "editing"
  /\ form' = [form EXCEPT ![s] = ClosedForm]
  /\ UNCHANGED <<invoices, invoice_items, payments, sources, invoice_number_seq,
                 today, modal, allocated, numberLog,
                 payform, txn>>

\* midnight
Tick ==
  /\ today < MaxDay
  /\ today' = today + 1
  /\ UNCHANGED <<invoices, invoice_items, payments, sources, invoice_number_seq,
                 form, modal, allocated, numberLog,
                 payform, txn>>

\* ------------------------------------------- concurrent statements (SQL)
\* Each request is one transaction at READ COMMITTED. A statement of a
\* trigger reads the rows committed when the statement starts and the
\* transaction's own; an UPDATE that finds its target row changed by a
\* transaction committed since then waits for the row lock and is applied to
\* the newest version of that row, while the subquery of its SET clause keeps
\* the rows it read. A transaction is therefore two steps: its statement
\* starts (the rows are read), and it writes and commits.

\* the item table its after the row change c of a transaction
ItemChange(its, c) ==
  IF c.op = "insert" THEN Put(its, c.item, c.row)
  ELSE IF c.item \in DOMAIN its THEN VoidRows(its, {c.item}) ELSE its

\* the item ids a transaction in flight has inserted or locked
ItemsInFlight == {txn[t].item : t \in {u \in TxnIds : txn[u].kind = "item"}}

\* INSERT INTO invoice_items (op = "insert", a row of amount amt for invoice
\* i) or void_invoice_item(k) (op = "void") by user uid, up to the subquery
\* of update_invoice_totals: sub is COALESCE(SUM(amount), 0) over the active
\* items of the invoice that this statement sees
BeginItem(t, uid, op, k, i, amt) ==
  /\ txn[t] = NoTxn
  /\ k \notin ItemsInFlight
  /\ IF op = "insert"
     THEN /\ k \in ItemIds \ DOMAIN invoice_items
          /\ InvoicePolicy(uid, invoices, i)
     ELSE /\ ItemPolicy(uid, invoices, invoice_items, k)
          /\ i = invoice_items[k].invoice_id
  /\ LET c == [op |-> op, item |-> k,
               row |-> [invoice_id |-> i, type |-> "other", amount |-> amt,
                        reference_id |-> NULL, status |-> "active"]]
         seen == ItemChange(invoice_items, c)
     IN txn' = [txn EXCEPT ![t] =
                  [kind |-> "item", user |-> uid, op |-> op, item |-> k,
                   row |-> c.row, invoice |-> i,
                   sub |-> SumOver(seen, ActiveItems(seen, i))]]
  /\ UNCHANGED <<invoices, invoice_items, payments, sources, invoice_number_seq,
                 today, form, modal, allocated, numberLog, payform>>

\* the rest of update_invoice_totals and the commit of transaction t: under
\* the lock of the invoice row subtotal becomes what the subquery returned,
\* total_amount becomes subtotal + tax_amount of that row, and the row change
\* becomes visible
CommitItem(t) ==
  /\ txn[t].kind = "item"
  /\ LET c == txn[t]
         i == c.invoice
     IN /\ invoice_items' = ItemChange(invoice_items, c)
        /\ invoices' = IF InvoicePolicy(c.user, invoices, i)
                       THEN [invoices EXCEPT
                               ![i].subtotal = c.sub,
                               ![i].total_amount = c.sub + invoices[i].tax_amount]
                       ELSE invoices
  /\ txn' = [txn EXCEPT ![t] = NoTxn]
  /\ UNCHANGED <<payments, sources, invoice_number_seq, today, form, modal,
                 allocated, numberLog, payform>>

\* the payment rows a transaction in flight has inserted
PaymentsInFlight == Cardinality({t \in TxnIds : txn[t].kind = "payment"})

\* INSERT INTO payments by user uid of a row of amount amt for invoice i, up
\* to the IF of update_invoice_status: the trigger has read total_amount and
\* the sum of the confirmed payments it sees, its own row among them, and
\* status is what its UPDATE is going to write
BeginPayment(t, uid, i, amt) ==
  /\ txn[t] = NoTxn
  /\ Cardinality(DOMAIN payments) + PaymentsInFlight < MaxPayments
  /\ amt > 0
  /\ i \in DOMAIN invoices
  /\ LET new == [owner_id |-> uid, invoice_id |-> i, amount |-> amt,
                 status |-> "confirmed"]
         seen == Put(payments, Cardinality(DOMAIN payments) + 1, new)
     IN txn' = [txn EXCEPT ![t] =
                  [kind |-> "payment", row |-> new, invoice |-> i,
                   status |-> update_invoice_status(invoices, seen, new)[i].status]]
  /\ UNCHANGED <<invoices, invoice_items, payments, sources, invoice_number_seq,
                 today, form, modal, allocated, numberLog, payform>>

\* the UPDATE of update_invoice_status, under the lock of the invoice row,
\* and the commit of transaction t: the payment row becomes visible
CommitPayment(t) ==
  /\ txn[t].kind = "payment"
  /\ LET c == txn[t]
     IN /\ payments' = Put(payments, Cardinality(DOMAIN payments) + 1, c.row)
        /\ invoices' = IF c.invoice \in DOMAIN invoices
                       THEN [invoices EXCEPT ![c.invoice].status = c.status]
                       ELSE invoices
  /\ txn' = [txn EXCEPT ![t] = NoTxn]
  /\ UNCHANGED <<invoice_items, sources, invoice_number_seq, today, form, modal,
                 allocated, numberLog, payform>>

\* --------------------------------------------------- MakePaymentForm
\* fetchInvoices as user uid: the invoices the SELECT policy shows whose
\* status is sent, partially_paid or overdue, each with the total_amount read
ListedInvoices(uid, invs) ==
  LET S == {i \in DOMAIN invs :
              /\ InvoicePolicy(uid, invs, i)
              /\ invs[i].status \in {"sent", "partially_paid", "overdue"}}
  IN [i \in S |-> invs[i].total_amount]

\* the form is opened by user uid, a unit with a tenant is chosen and
\* fetchInvoices stores its list; nothing is ticked
OpenPayForm(uid) ==
  /\ payform.pc = "closed"
  /\ payform' = [pc |-> "open", user |-> uid,
                 invoices |-> ListedInvoices(uid, invoices),
                 selectedInvoices |-> <<>>]
  /\ UNCHANGED <<invoices, invoice_items, payments, sources, invoice_number_seq,
                 today, form, modal, allocated, numberLog, txn>>

\* the unit is chosen again: fetchTenant, then fetchInvoices replace the
\* list; selectedInvoices is left as it is
RefetchInvoices ==
  /\ payform.pc = "open"
  /\ payform' = [payform EXCEPT !.invoices = ListedInvoices(payform.user, invoices)]
  /\ UNCHANGED <<invoices, invoice_items, payments, sources, invoice_number_seq,
                 today, form, modal, allocated, numberLog, txn>>

\* prev.filter(id => id !== invoiceId)
Without(s, i) == SelectSeq(s, LAMBDA x : x # i)

SeqRange(s) == {s[n] : n \in DOMAIN s}

\* handleInvoiceSelection: the checkbox of a listed invoice is clicked
handleInvoiceSelection(i) ==
  /\ payform.pc = "open"
  /\ i \in DOMAIN payform.invoices
  /\ payform' = [payform EXCEPT !.selectedInvoices =
                    IF i \in SeqRange(@) THEN Without(@, i) ELSE Append(@, i)]
  /\ UNCHANGED <<invoices, invoice_items, payments, sources, invoice_number_seq,
                 today, form, modal, allocated, numberLog, txn>>

\* the X button
ClosePayForm ==
  /\ payform.pc = "open"
  /\ payform' = ClosedPayForm
  /\ UNCHANGED <<invoices, invoice_items, payments, sources, invoice_number_seq,
                 today, form, modal, allocated, numberLog, txn>>

\* invoice?.total_amount || 0 for a ticked id
ListedTotal(f, i) == IF i \in DOMAIN f.invoices THEN f.invoices[i] ELSE 0

RECURSIVE JsReduce(_, _, _)
\* selectedInvoices.reduce((sum, id) => sum + ..., 0): the values the
\* JavaScript sum over the ticked ids from position n on can take, from sum
JsReduce(f, n, sum) ==
  IF n > Len(f.selectedInvoices) THEN {sum}
  ELSE UNION {JsReduce(f, n + 1, s) :
                s \in JsSum(sum, ListedTotal(f, f.selectedInvoices[n]))}

totalInvoiceAmount(f) == JsReduce(f, 1, 0)

\* paymentAmount / selectedInvoices.length as the decimal that is sent: exact
\* when the division is, else the nearest double on either side
JsDiv(a, n) == IF a % n = 0 THEN {a \div n} ELSE {a \div n, a \div n + 1}

\* handleSubmit with its validation left out
PayRejected_never(f, type, paymentAmount, total) == FALSE

\* handleSubmit's validation: a full payment below the sum of the listed
\* totals of the ticked invoices throws before any insert
PayRejected(f, type, paymentAmount, total) ==
  type = "full" /\ paymentAmount < total

\* the amount of the payment row for the ticked invoice i
RowAmount(f, type, share, i) == IF type = "full" THEN f.invoices[i] ELSE share

RECURSIVE PayLoop(_, _, _, _, _, _)
\* the for loop of handleSubmit from the n-th ticked invoice on, the tables
\* being st.pays and st.invs: an id that is not in the list is skipped; each
\* other one is one INSERT INTO payments with its row trigger. The INSERT
\* fails when the request does (n = failAt), when the invoice is gone (foreign
\* key) and when the amount is not positive (CHECK); the first failure throws.
PayLoop(f, type, share, failAt, n, st) ==
  IF n > Len(f.selectedInvoices) THEN st
  ELSE LET i == f.selectedInvoices[n]
       IN IF i \notin DOMAIN f.invoices
          THEN PayLoop(f, type, share, failAt, n + 1, st)
          ELSE LET amt == RowAmount(f, type, share, i)
                   new == [owner_id |-> f.user, invoice_id |-> i, amount |-> amt,
                           status |-> "confirmed"]
                   pays == Put(st.pays, Cardinality(DOMAIN st.pays) + 1, new)
               IN IF n = failAt \/ i \notin DOMAIN st.invs \/ amt <= 0
                  THEN [st EXCEPT !.ok = FALSE]
                  ELSE PayLoop(f, type, share, failAt, n + 1,
                               [pays |-> pays,
                                invs |-> update_invoice_status(st.invs, pays, new),
                                ok |-> TRUE])

\* MakePaymentForm.handleSubmit for the chosen payment type and the entered
\* amount, the submit button being enabled with an invoice ticked; the
\* failAt-th request of the loop fails, none for 0. After the loop
\* onSuccess() and onClose(); a throw is caught, alerts, and the form stays
\* open.
PaySubmit(type, paymentAmount, failAt) ==
  /\ payform.pc = "open"
  /\ Len(payform.selectedInvoices) > 0
  /\ failAt \in 0..Len(payform.selectedInvoices)
  /\ \E total \in totalInvoiceAmount(payform),
        share \in JsDiv(paymentAmount, Len(payform.selectedInvoices)) :
        IF PayRejected(payform, type, paymentAmount, total)
        THEN UNCHANGED <<payments, invoices, payform>>
        ELSE /\ Cardinality(DOMAIN payments) + Len(payform.selectedInvoices)
                  <= MaxPayments
             /\ LET r == PayLoop(payform, type, share, failAt, 1,
                                 [pays |-> payments, invs |-> invoices, ok |-> TRUE])
                IN /\ payments' = r.pays
                   /\ invoices' = r.invs
                   /\ payform' = IF r.ok THEN ClosedPayForm ELSE payform
  /\ UNCHANGED <<invoice_items, sources, invoice_number_seq, today, form, modal,
                 allocated, numberLog, txn>>

\* ----------------------------------------------------- specifications
\* The tables, the form and the modal are largely independent of each other,
\* so each specification composes the operations one group of properties is
\* about, over the same state.
ItemOps ==
  \/ \E uid \in Owners, i \in InvoiceIds, amt \in OtherAmounts : InsertItem(uid, i, amt)
  \/ \E uid \in Owners, k \in ItemIds : DeleteItem(uid, k)
  \/ \E uid \in Owners, k \in ItemIds : void_invoice_item(uid, k)

MoveOps ==
  \E uid \in Owners, k \in ItemIds, b \in InvoiceIds : MoveItem(uid, k, b)

VoidOps ==
  \E uid \in Owners, i \in InvoiceIds, c \in VariableConflict : void_invoice(uid, i, c)

\* any user records a payment, against any invoice or none
PaymentOps ==
  \E uid \in Owners, i \in InvoiceIds \cup {NULL}, amt \in PayAmounts :
     InsertPayment(uid, i, amt)

\* a user inserts a payment row against an invoice of their own: the request
\* MakePaymentForm sends, which the INSERT policy and the trigger accept
\* whatever the status of the invoice is
OwnPaymentOps ==
  \E i \in DOMAIN invoices, amt \in PayAmounts :
     InsertPayment(invoices[i].owner_id, i, amt)

ListOps == \E uid \in Owners, i \in InvoiceIds : handleDelete(uid, i)

ModalOps ==
  \/ \E uid \in Owners, i \in InvoiceIds : OpenModal(uid, i)
  \/ CloseModal
  \/ handleSendInvoice

FormEdit ==
  \/ \E s \in Sessions, uid \in Owners, rent \in RentAmounts : SelectUnit(s, uid, rent)
  \/ \E s \in Sessions, pct \in TaxPercentages : SelectTax(s, pct)
  \/ \E s \in Sessions : CloseForm(s)

ApiOps ==
  \E uid \in Owners, number \in SuppliedNumbers, amt \in RentAmounts :
     InsertInvoice(uid, number, amt)

\* two transactions of the owner of an invoice on its items
TxnItemOps ==
  \/ \E t \in TxnIds, i \in DOMAIN invoices, op \in {"insert", "void"},
        k \in ItemIds, amt \in OtherAmounts :
        BeginItem(t, invoices[i].owner_id, op, k, i, amt)
  \/ \E t \in TxnIds : CommitItem(t)

PayAmountsEntered == {Money(5), Money(7), Money(20)}

\* two transactions that each record a payment of the owner of an invoice
TxnPayOps ==
  \/ \E t \in TxnIds, i \in DOMAIN invoices, amt \in PayAmountsEntered :
        BeginPayment(t, invoices[i].owner_id, i, amt)
  \/ \E t \in TxnIds : CommitPayment(t)

PayFormOps ==
  \/ \E uid \in Owners : OpenPayForm(uid)
  \/ RefetchInvoices
  \/ \E i \in InvoiceIds : handleInvoiceSelection(i)
  \/ ClosePayForm
  \/ \E type \in {"full", "partial"}, amt \in PayAmountsEntered,
        failAt \in 0..MaxInvoices :
        PaySubmit(type, amt, failAt)

FormOpen ==
  \/ \E s \in Sessions, uid \in Owners : OpenForm(s, uid)
  \/ \E s \in Sessions, rent \in RentAmounts \cup CentRents, found \in BOOLEAN :
        SelectUnitLater(s, rent, found)

FormFetch ==
  \/ \E s \in Sessions : fetchUtilities(s)
  \/ \E s \in Sessions : fetchDeposits(s)

FormSubmit ==
  \/ \E s \in Sessions, ok \in BOOLEAN : SubmitInvoice(s, ok)
  \/ \E s \in Sessions, ok \in BOOLEAN : SubmitItems(s, ok)

FormSources ==
  \/ \E s \in Sessions, ok \in BOOLEAN : SubmitUtilities(s, ok)
  \/ \E s \in Sessions, ok \in BOOLEAN : SubmitDeposits(s, ok)

\* every operation
Next ==
  FormOpen \/ FormEdit \/ FormFetch \/ FormSubmit \/ FormSources \/ ItemOps
    \/ VoidOps \/ ApiOps \/ PaymentOps \/ ListOps \/ ModalOps \/ Tick
    \/ MoveOps \/ PayFormOps \/ TxnItemOps \/ TxnPayOps
    \/ \E s \in Sessions : SelectUnitNoDetails(s)

Spec == Init /\ [][Next]_vars

\* invoice creation and every operation that writes invoice_items or the
\* totals of an invoice
NextTotals == FormEdit \/ FormSubmit \/ ItemOps \/ VoidOps \/ ListOps

SpecTotals == Init /\ [][NextTotals]_vars

\* invoice creation, the item mutations and the payments users record
\* against their own invoices
NextPayments == FormEdit \/ FormSubmit \/ ItemOps \/ VoidOps \/ OwnPaymentOps \/ ListOps

SpecPayments == Init /\ [][NextPayments]_vars

\* invoice creation and the payments any user records against any invoice
NextOwners == FormEdit \/ FormSubmit \/ PaymentOps \/ ListOps

SpecOwners == Init /\ [][NextOwners]_vars

\* invoice creation with the utility and deposit records
NextCreate == FormOpen \/ FormEdit \/ FormFetch \/ FormSubmit \/ FormSources \/ ListOps

SpecCreate == Init /\ [][NextCreate]_vars

\* sending: invoices are created, paid and cancelled while the modal is open
NextSend == FormEdit \/ FormSubmit \/ VoidOps \/ OwnPaymentOps \/ ModalOps

SpecSend == Init /\ [][NextSend]_vars

\* paying through the form: invoices are inserted, sent and deleted while
\* the payment form is open
NextPay == ApiOps \/ ModalOps \/ ListOps \/ PayFormOps

SpecPay == Init /\ [][NextPay]_vars

\* concurrency: overlapping transactions on the items of the invoices
NextConcurrent == ApiOps \/ TxnItemOps

SpecConcurrent == Init /\ [][NextConcurrent]_vars

\* concurrency: overlapping transactions that record payments
NextConcurrentPayments == ApiOps \/ TxnPayOps

SpecConcurrentPayments == Init /\ [][NextConcurrentPayments]_vars

\* two create-invoice forms open at once (two tabs, or two users), every
\* request of theirs answered without an error
TwoSessions == 1..(NSessions + 1)

InitBilling ==
  /\ invoices = <<>>
  /\ invoice_items = <<>>
  /\ payments = <<>>
  /\ sources = InitialSources
  /\ invoice_number_seq = 0
  /\ today = 0
  /\ form = [s \in TwoSessions |-> ClosedForm]
  /\ modal = NoModal
  /\ allocated = 0
  /\ numberLog = <<>>
  /\ payform = ClosedPayForm
  /\ txn = [t \in TxnIds |-> NoTxn]

NextBilling ==
  \/ \E s \in TwoSessions, uid \in Owners : OpenForm(s, uid)
  \/ \E s \in TwoSessions : SelectUnitNoDetails(s)
  \/ \E s \in TwoSessions : fetchUtilities(s)
  \/ \E s \in TwoSessions : fetchDeposits(s)
  \/ \E s \in TwoSessions : SubmitInvoice(s, TRUE)
  \/ \E s \in TwoSessions : SubmitItems(s, TRUE)
  \/ \E s \in TwoSessions : SubmitUtilities(s, TRUE)
  \/ \E s \in TwoSessions : SubmitDeposits(s, TRUE)
  \/ \E s \in TwoSessions : CloseForm(s)

SpecBilling == InitBilling /\ [][NextBilling]_vars

\* invoices created from utilities and deposits, then voided or deleted
NextVoid ==
  \/ FormEdit \/ FormFetch \/ FormSubmit \/ FormSources \/ VoidOps \/ ListOps
  \/ \E uid \in Owners, k \in ItemIds : void_invoice_item(uid, k)

SpecVoid == Init /\ [][NextVoid]_vars

\* items are inserted, voided, deleted and moved between invoices
NextMove == ApiOps \/ ItemOps \/ MoveOps

SpecMove == Init /\ [][NextMove]_vars

\* invoice creation from a sequence about to pass 9999, across midnight
InitNumbering ==
  /\ invoices = <<>>
  /\ invoice_items = <<>>
  /\ payments = <<>>
  /\ sources = InitialSources
  /\ invoice_number_seq \in SeqStarts
  /\ today = 0
  /\ form = [s \in Sessions |-> ClosedForm]
  /\ modal = NoModal
  /\ allocated = 0
  /\ numberLog = <<>>
  /\ payform = ClosedPayForm
  /\ txn = [t \in TxnIds |-> NoTxn]

NextNumbering == FormEdit \/ FormSubmit \/ ApiOps \/ ListOps \/ Tick

SpecNumbering == InitNumbering /\ [][NextNumbering]_vars

\* ------------------------------------------------------------ properties
\* no create-invoice submission is between two of its requests
Quiescent == \A s \in Sessions : form[s].pc \in {"closed", "editing"}

SubtotalIsActiveSum(i) ==
  invoices[i].subtotal = SumOver(invoice_items, ActiveItems(invoice_items, i))

\* C1: whenever no submission is under way, the stored subtotal of every
\* invoice equals the sum of the amounts of its active items. Refuted: the
\* invoice row is inserted with the form's subtotal before any item row, and
\* it stays when the item insert fails.
C1_SubtotalIsActiveSum ==
  Quiescent => \A i \in DOMAIN invoices : SubtotalIsActiveSum(i)

\* C2: whenever no submission is under way, every invoice has
\* total_amount = subtotal + tax_amount. Refuted: the invoice row is inserted
\* with the total the form computed in JavaScript numbers, and keeps it when
\* the item insert, whose trigger would recompute it, fails.
C2_TotalIsSubtotalPlusTax ==
  Quiescent =>
    \A i \in DOMAIN invoices :
       invoices[i].total_amount = invoices[i].subtotal + invoices[i].tax_amount

\* the status update_invoice_status leaves on an invoice with a payment
StatusFor(total_paid, invoice_total) ==
  IF total_paid >= invoice_total THEN "paid" ELSE "partially_paid"

\* this step inserts a payment row that names invoice i
PaymentInsertedFor(i) ==
  \E p \in DOMAIN payments' \ DOMAIN payments : payments'[p].invoice_id = i

\* C3: right after a payment naming invoice i is inserted, i is paid when its
\* confirmed payments sum to at least its total_amount (more than the total
\* included) and partially_paid when they sum to less.
C3_StatusAfterPayment ==
  [][\A i \in DOMAIN invoices :
       PaymentInsertedFor(i) =>
         invoices'[i].status = StatusFor(TotalPaid(payments', i),
                                         invoices'[i].total_amount)]_vars

\* C3 happens: an invoice paid by more than its positive total, and one left
\* partially paid
C3_Witness ==
  /\ \E i \in DOMAIN invoices :
        /\ invoices[i].status = "paid"
        /\ invoices[i].total_amount > 0
        /\ TotalPaid(payments, i) > invoices[i].total_amount
  /\ \E i \in DOMAIN invoices :
        /\ invoices[i].status = "partially_paid"
        /\ TotalPaid(payments, i) > 0
        /\ TotalPaid(payments, i) < invoices[i].total_amount

\* C4: no two calls of generate_invoice_number return the same string.
\* Refuted: lpad(..., 4, '0') cuts an ordinal of five digits to its first
\* four, so the calls 10000 and 10001 of one day both return ...-1000.
C4_NumbersDistinct ==
  \A a, b \in DOMAIN numberLog : a # b => numberLog[a] # numberLog[b]

\* what the submission of session s has written so far
AttemptRemains(s) ==
  \/ form[s].invoice \in DOMAIN invoices'
  \/ \E k \in DOMAIN invoice_items' : invoice_items'[k].invoice_id = form[s].invoice
  \/ \E r \in ReferenceIds(form[s].items, "utility")
               \cup ReferenceIds(form[s].items, "deposit") :
        sources[r].status = "saved" /\ sources'[r].status = "invoiced"

\* a request of the submission of session s fails in this step
RequestFails(s) ==
  \/ form[s].pc = "invoice_inserted" /\ form'[s].pc = "editing"
  \/ SubmitUtilities(s, FALSE)
  \/ SubmitDeposits(s, FALSE)

\* C5: when the item insert or a source-status update of a submission fails,
\* nothing the submission wrote remains. Refuted: each request commits on its
\* own, so the invoice row outlives a failed item insert, and invoice and
\* items outlive a failed source update.
C5_AllOrNothing ==
  [][\A s \in Sessions : RequestFails(s) => ~AttemptRemains(s)]_vars

\* C6: no step changes status, subtotal, tax_amount or total_amount of an
\* invoice that is cancelled. Refuted: neither trigger looks at the status,
\* so an item insert recomputes the totals of a cancelled invoice and a
\* payment makes it paid.
C6_CancelledIsTerminal ==
  [][\A i \in DOMAIN invoices \cap DOMAIN invoices' :
       invoices[i].status = "cancelled" =>
         /\ invoices'[i].status = "cancelled"
         /\ invoices'[i].subtotal = invoices[i].subtotal
         /\ invoices'[i].tax_amount = invoices[i].tax_amount
         /\ invoices'[i].total_amount = invoices[i].total_amount]_vars

\* a step user uid takes
ActBy(uid) ==
  \/ \E i \in InvoiceIds \cup {NULL}, amt \in PayAmounts : InsertPayment(uid, i, amt)
  \/ \E i \in InvoiceIds : handleDelete(uid, i)
  \/ \E i \in InvoiceIds, amt \in OtherAmounts : InsertItem(uid, i, amt)
  \/ \E k \in ItemIds : DeleteItem(uid, k) \/ void_invoice_item(uid, k)
  \/ \E i \in InvoiceIds, c \in VariableConflict : void_invoice(uid, i, c)
  \/ \E s \in Sessions, ok \in BOOLEAN :
        form[s].user = uid /\ (SubmitInvoice(s, ok) \/ SubmitItems(s, ok))

\* the rows of the three tables that belong to owner b
RowsOf(b, invs, its, pays) ==
  [inv |-> [i \in {j \in DOMAIN invs : invs[j].owner_id = b} |-> invs[i]],
   item |-> [k \in {j \in DOMAIN its :
                      /\ its[j].invoice_id \in DOMAIN invs
                      /\ invs[its[j].invoice_id].owner_id = b} |-> its[k]],
   pay |-> [p \in {j \in DOMAIN pays : pays[j].owner_id = b} |-> pays[p]]]

\* C7: a step of user a leaves every invoice, item and payment of every
\* other owner as it was. Refuted: update_invoice_status is SECURITY DEFINER
\* and the foreign key of payments.invoice_id is checked without the
\* policies, so a payment of a that names an invoice of b sets its status.
C7_WritesScopedToOwner ==
  [][\A a \in Owners, b \in Owners :
       (a # b /\ ActBy(a)) =>
         RowsOf(b, invoices', invoice_items', payments')
           = RowsOf(b, invoices, invoice_items, payments)]_vars

\* C8: when a submission ends in onSuccess(), every utility and deposit
\* record an item of the form refers to is invoiced. Refuted: the error of
\* the two updates is never looked at.
C8_SuccessMeansInvoiced ==
  [][\A s \in Sessions :
       onSuccess(s) =>
         \A r \in ReferenceIds(form[s].items, "utility")
                    \cup ReferenceIds(form[s].items, "deposit") :
            sources'[r].status = "invoiced"]_vars

\* C9: whenever no submission is under way, every invoice that is not
\* cancelled and has a confirmed payment is paid when the payments sum to at
\* least total_amount and partially_paid when they sum to less. Refuted: the
\* totals trigger writes total_amount and never the status.
C9_StatusIsFunctionOfTotals ==
  Quiescent =>
    \A i \in DOMAIN invoices :
       (invoices[i].status # "cancelled" /\ ConfirmedPayments(payments, i) # {}) =>
          invoices[i].status = StatusFor(TotalPaid(payments, i),
                                         invoices[i].total_amount)

\* C10: a payment insert never takes an invoice from paid to partially_paid.
\* Refuted: an item insert raises the total of a paid invoice without
\* touching its status, and the next payment finds the sum below the total.
C10_PaidNeverRegresses ==
  [][\A i \in DOMAIN invoices \cap DOMAIN invoices' :
       (invoices[i].status = "paid" /\ DOMAIN payments' # DOMAIN payments) =>
          invoices'[i].status # "partially_paid"]_vars

\* C11: a call of void_invoice_item that voids an active item k lowers the
\* subtotal of its invoice by the amount of k, sets total_amount to the new
\* subtotal plus tax_amount, and leaves tax_amount, status, every other
\* item and every other invoice as they were.
C11_VoidItemFrame ==
  [][\A uid \in Owners, k \in ItemIds :
       (/\ void_invoice_item(uid, k)
        /\ ItemPolicy(uid, invoices, invoice_items, k)
        /\ invoice_items[k].status = "active") =>
          LET i == invoice_items[k].invoice_id
          IN /\ invoices'[i].subtotal = invoices[i].subtotal - invoice_items[k].amount
             /\ invoices'[i].tax_amount = invoices[i].tax_amount
             /\ invoices'[i].total_amount
                  = invoices'[i].subtotal + invoices[i].tax_amount
             /\ invoices'[i].status = invoices[i].status
             /\ invoice_items' = [invoice_items EXCEPT ![k].status = "void"]
             /\ \A j \in DOMAIN invoices \ {i} : invoices'[j] = invoices[j]]_vars

\* C11 happens: a taxed invoice with one item voided and one still active
C11_Witness ==
  \E i \in DOMAIN invoices, k, m \in DOMAIN invoice_items :
     /\ invoice_items[k].invoice_id = i /\ invoice_items[k].status = "void"
     /\ invoice_items[m].invoice_id = i /\ invoice_items[m].status = "active"
     /\ invoices[i].tax_amount > 0
     /\ invoices[i].subtotal = invoice_items[m].amount
     /\ invoices[i].total_amount = invoices[i].subtotal + invoices[i].tax_amount

\* C12: when a call of void_invoice(i) by a user whose policy shows invoice i
\* returns (it does not raise), every item of i is void and i is cancelled
\* with subtotal, tax_amount and total_amount 0, whatever the row trigger
\* wrote while the items were voided.
C12_VoidInvoicePost ==
  [][\A uid \in Owners, i \in InvoiceIds, c \in VariableConflict \ {"error"} :
       (void_invoice(uid, i, c) /\ InvoicePolicy(uid, invoices, i)) =>
          /\ \A k \in DOMAIN invoice_items' :
                invoice_items'[k].invoice_id = i => invoice_items'[k].status = "void"
          /\ invoices'[i].status = "cancelled"
          /\ invoices'[i].subtotal = 0
          /\ invoices'[i].tax_amount = 0
          /\ invoices'[i].total_amount = 0]_vars

\* C12 happens: a cancelled invoice, all zero, whose items (one of them was
\* void before the call or not) are void
C12_Witness ==
  \E i \in DOMAIN invoices :
     /\ invoices[i].status = "cancelled"
     /\ invoices[i].subtotal = 0
     /\ invoices[i].tax_amount = 0
     /\ invoices[i].total_amount = 0
     /\ Cardinality({k \in DOMAIN invoice_items : invoice_items[k].invoice_id = i}) = 2
     /\ \A k \in DOMAIN invoice_items :
           invoice_items[k].invoice_id = i => invoice_items[k].status = "void"

\* C13: no step changes or removes a payment row that exists. Refuted:
\* payments.invoice_id is declared ON DELETE SET NULL, so deleting an invoice
\* rewrites the invoice_id of every payment that names it.
C13_PaymentsImmutable ==
  [][\A p \in DOMAIN payments :
       p \in DOMAIN payments' /\ payments'[p] = payments[p]]_vars

\* the rows of the three tables and of the source records
Persisted == <<invoices, invoice_items, payments, sources>>

\* C14: a submission of a form that has no item, or no property and unit,
\* or no tenant, writes nothing: invoices, items, payments and the source
\* records stay as they are, and no invoice number is drawn.
C14_RejectedBeforePersistence ==
  [][\A s \in Sessions, ok \in BOOLEAN :
       (/\ SubmitInvoice(s, ok)
        /\ \/ Len(form[s].items) = 0
           \/ form[s].unit = NULL
           \/ form[s].tenant = NULL) =>
          /\ UNCHANGED Persisted
          /\ UNCHANGED invoice_number_seq
          /\ form'[s].pc = "editing"]_vars

\* C14 happens: a form that handleSubmit rejects, with the rent item of a
\* unit that has no tenant
C14_Witness ==
  \E s \in Sessions :
     /\ form[s].pc = "editing"
     /\ form[s].unit # NULL
     /\ form[s].tenant = NULL
     /\ Len(form[s].items) > 0
     /\ Rejected(form[s])

\* x rounded to the nearest hundredth of a currency unit
RoundToCent(x) == ((x + 50) \div 100) * 100

\* C15: the invoice row a submission inserts carries tax_amount =
\* round(subtotal * percentage / 100) for the selected tax, 0 for none.
\* Refuted: calculateTotals does not round and the column has no scale, so
\* 7.55 at 16 percent is stored as 1.208.
C15_TaxIsRounded ==
  [][\A s \in Sessions, i \in DOMAIN invoices' \ DOMAIN invoices :
       form'[s].invoice = i =>
          invoices'[i].tax_amount
            = IF form[s].tax = 0 THEN 0
              ELSE RoundToCent((invoices'[i].subtotal * form[s].tax) \div 100)]_vars

RECURSIVE OrdinalValue(_)
\* the number a sequence of decimal digits writes
OrdinalValue(d) ==
  IF d = <<>> THEN 0 ELSE 10 * OrdinalValue(SubSeq(d, 1, Len(d) - 1)) + d[Len(d)]

\* C16: of two generated invoice numbers, the later one carries the larger
\* ordinal. Refuted: from the call 10000 on lpad cuts the ordinal to four
\* digits, so the calls 10000 and 10001 both carry 1000 (and the call 10000
\* carries less than the call 9999).
C16_OrdinalIncreases ==
  \A a, b \in DOMAIN numberLog :
     a < b => OrdinalValue(numberLog[a].ordinal) < OrdinalValue(numberLog[b].ordinal)

\* C17: no two rows of invoices carry the same invoice_number, whether the
\* numbers were generated or supplied by the caller.
C17_NumbersUnique ==
  \A i, j \in DOMAIN invoices :
     i # j => invoices[i].invoice_number # invoices[j].invoice_number

\* C17 happens: the generator has returned one string twice and one stored
\* invoice carries it
C17_Witness ==
  \E a, b \in DOMAIN numberLog :
     /\ a < b
     /\ numberLog[a] = numberLog[b]
     /\ Cardinality({i \in DOMAIN invoices :
                       invoices[i].invoice_number = numberLog[a]}) = 1


\* C18: when the owner deletes or voids the last active item of an invoice,
\* the invoice's subtotal and total_amount are both 0 afterwards, whatever its
\* tax_amount is.
C18_LastItemZeroesTotals ==
  [][\A uid \in Owners, k \in ItemIds :
       (/\ DeleteItem(uid, k) \/ void_invoice_item(uid, k)
        /\ ItemPolicy(uid, invoices, invoice_items, k)
        /\ ActiveItems(invoice_items, invoice_items[k].invoice_id) = {k}) =>
          LET i == invoice_items[k].invoice_id
          IN /\ invoices'[i].subtotal = 0
             /\ invoices'[i].total_amount = 0]_vars


\* C19: recomputing the totals of an invoice twice in a row, the items
\* unchanged in between, gives the subtotal and total_amount that recomputing
\* once gives.
C19_TotalsIdempotent ==
  \A uid \in Owners, i \in DOMAIN invoices :
     LET once == update_invoice_totals(uid, invoices, invoice_items, i)
         twice == update_invoice_totals(uid, once, invoice_items, i)
     IN /\ twice[i].subtotal = once[i].subtotal
        /\ twice[i].total_amount = once[i].total_amount

\* C19 happens: a taxed invoice with an active and a void item, its totals as
\* the last recomputation left them, which its owner recomputes again
C19_Witness ==
  \E i \in DOMAIN invoices :
     LET once == update_invoice_totals(invoices[i].owner_id, invoices, invoice_items, i)
     IN /\ ActiveItems(invoice_items, i) # {}
        /\ \E k \in DOMAIN invoice_items :
              invoice_items[k].invoice_id = i /\ invoice_items[k].status = "void"
        /\ invoices[i].tax_amount > 0
        /\ once[i].subtotal > 0
        /\ once[i] = invoices[i]


\* C20: the send action changes the status of an invoice to sent only when
\* the stored status is draft; an invoice stored as paid, partially_paid,
\* overdue or cancelled is not made sent, also when the modal that offers the
\* button read the invoice earlier.
C20_SendOnlyFromDraft ==
  [][handleSendInvoice =>
       \A i \in DOMAIN invoices :
          (invoices'[i].status = "sent" /\ invoices[i].status # "sent")
             => invoices[i].status = "draft"]_vars


RECURSIVE SelectedSum(_, _)
\* the exact sum of the totals the form lists for its ticked invoices from
\* position n on (an id the list no longer has counts 0, as in the form's own
\* Total Selected Amount)
SelectedSum(f, n) ==
  IF n > Len(f.selectedInvoices) THEN 0
  ELSE ListedTotal(f, f.selectedInvoices[n]) + SelectedSum(f, n + 1)

\* C21: a full payment whose entered amount is below the sum of the totals of
\* the ticked invoices is rejected: the submission inserts no payment row and
\* changes no invoice.
C21_FullBelowTotalRejected ==
  [][\A amt \in PayAmountsEntered, failAt \in 0..MaxInvoices :
       (PaySubmit("full", amt, failAt) /\ amt < SelectedSum(payform, 1)) =>
          /\ payments' = payments
          /\ invoices' = invoices]_vars

\* C21 happens: the form is open with two listed invoices ticked whose totals
\* exceed an amount that can be entered, and payments can still be recorded
C21_Witness ==
  /\ payform.pc = "open"
  /\ Len(payform.selectedInvoices) = 2
  /\ \E amt \in PayAmountsEntered :
        /\ amt < SelectedSum(payform, 1)
        /\ amt >= ListedTotal(payform, payform.selectedInvoices[1])
  /\ Cardinality(DOMAIN payments) + 2 <= MaxPayments


\* C22: when a transaction that changed an item of an invoice commits and no
\* other transaction on that invoice is still in flight, the invoice's
\* subtotal is the sum of its active items and its total_amount is subtotal +
\* tax_amount, also when the transactions overlapped (no lost update).
C22_NoLostUpdate ==
  [][\A t \in TxnIds :
       (/\ CommitItem(t)
        /\ \A u \in TxnIds \ {t} :
              ~(txn[u].kind = "item" /\ txn[u].invoice = txn[t].invoice)) =>
          LET i == txn[t].invoice
          IN /\ invoices'[i].subtotal
                  = SumOver(invoice_items', ActiveItems(invoice_items', i))
             /\ invoices'[i].total_amount
                  = invoices'[i].subtotal + invoices'[i].tax_amount]_vars


\* C23: no step takes an invoice from draft to paid or partially_paid; an
\* invoice is sent before a payment changes its status.
C23_NoPaymentOnDraft ==
  [][\A i \in DOMAIN invoices :
       (i \in DOMAIN invoices' /\ invoices[i].status = "draft") =>
          invoices'[i].status \notin {"paid", "partially_paid"}]_vars


\* the invoices an active item of which refers to the utility or deposit r
BilledOn(r) ==
  {invoice_items[k].invoice_id :
     k \in {j \in DOMAIN invoice_items :
              /\ invoice_items[j].reference_id = r
              /\ invoice_items[j].status = "active"}}

\* C24: no utility or deposit record is referred to by active items of two
\* different invoices.
C24_NoDoubleBilling ==
  \A r \in SourceIds : Cardinality(BilledOn(r)) <= 1


\* C25: when a transaction that inserted a payment for an invoice commits and
\* no other payment for that invoice is still in flight, the invoice is paid
\* exactly when its confirmed payments sum to at least its total_amount, also
\* when the transactions overlapped.
C25_PaidIffCovered ==
  [][\A t \in TxnIds :
       (/\ CommitPayment(t)
        /\ \A u \in TxnIds \ {t} :
              ~(txn[u].kind = "payment" /\ txn[u].invoice = txn[t].invoice)) =>
          LET i == txn[t].invoice
          IN (invoices'[i].status = "paid")
                <=> (TotalPaid(payments', i) >= invoices'[i].total_amount)]_vars


\* C26: voiding an invoice, voiding an item and deleting an invoice leave
\* every utility and deposit record as it is, and no step takes a record that
\* is invoiced back to saved or pending.
C26_SourcesKeepInvoiced ==
  [][/\ \A r \in SourceIds :
          sources[r].status = "invoiced" => sources'[r].status = "invoiced"
     /\ (\/ \E uid \in Owners, i \in InvoiceIds, c \in VariableConflict :
               void_invoice(uid, i, c)
         \/ \E uid \in Owners, k \in ItemIds : void_invoice_item(uid, k)
         \/ \E uid \in Owners, i \in InvoiceIds : handleDelete(uid, i))
           => sources' = sources]_vars

\* C26 happens: an item that refers to an invoiced record has been voided
C26_Witness ==
  \E k \in DOMAIN invoice_items :
     /\ invoice_items[k].reference_id # NULL
     /\ invoice_items[k].status = "void"
     /\ sources[invoice_items[k].reference_id].status = "invoiced"


\* the ticked invoice i is listed, and its stored total_amount is positive
\* and the one the form listed
ListedUnchanged(i) ==
  /\ i \in DOMAIN payform.invoices
  /\ i \in DOMAIN invoices
  /\ invoices[i].total_amount > 0
  /\ invoices[i].total_amount = payform.invoices[i]

C28_RowsSumToEntered ==
  [][\A type \in {"full", "partial"}, amt \in PayAmountsEntered,
        failAt \in 0..MaxInvoices :
       (PaySubmit(type, amt, failAt) /\ payform'.pc = "closed") =>
          SumOver(payments', DOMAIN payments' \ DOMAIN payments) = amt]_vars


\* C29: a submission of the payment form that ends in an error (the form
\* stays open) leaves no payment row behind and changes the status of no
\* ticked invoice.
C29_PaymentsAllOrNothing ==
  [][\A type \in {"full", "partial"}, amt \in PayAmountsEntered,
        failAt \in 0..MaxInvoices :
       (PaySubmit(type, amt, failAt) /\ payform'.pc = "open") =>
          /\ payments' = payments
          /\ \A i \in SeqRange(payform.selectedInvoices) \cap DOMAIN invoices :
                invoices'[i].status = invoices[i].status]_vars


\* the totals of invoice i in the tables invs and its: subtotal is the sum of
\* the active items and total_amount is subtotal + tax_amount
TotalsRight(invs, its, i) ==
  /\ invs[i].subtotal = SumOver(its, ActiveItems(its, i))
  /\ invs[i].total_amount = invs[i].subtotal + invs[i].tax_amount

\* C30: when an item is moved from invoice A, whose totals were right, to
\* another invoice B, the totals of both A and B are right afterwards.
C30_MoveKeepsBothTotals ==
  [][\A uid \in Owners, k \in ItemIds, b \in InvoiceIds :
       (/\ MoveItem(uid, k, b)
        /\ ItemPolicy(uid, invoices, invoice_items, k)
        /\ InvoicePolicy(uid, invoices, b)
        /\ invoice_items[k].invoice_id # b
        /\ TotalsRight(invoices, invoice_items, invoice_items[k].invoice_id)) =>
          /\ TotalsRight(invoices', invoice_items', invoice_items[k].invoice_id)
          /\ TotalsRight(invoices', invoice_items', b)]_vars

====
